---- MODULE Spec2Model ----
\* A model of qsim's ParallelForT<MIN_SIZE> (lib/parfor.h): the range
\* partitioner GetIndex0/GetIndex1, the dispatcher Run and the reductions
\* RunReduceP/RunReduce, with the OpenMP parallel region as a team of workers
\* that interleave freely and meet at the region's closing barrier.
EXTENDS Integers, Sequences, FiniteSets

\* ---------------------------------------------------------------- bounds
\* uint64_t is scaled down to WordBits bits: products wrap modulo 2^WordBits.
WordBits == 4
\* Largest size passed to Run/RunReduceP/RunReduce.
MaxSize == 6
\* Largest requested num_threads.
MaxThreads == 3
\* Largest instantiation of the template parameter MIN_SIZE.
MaxMinSize == 2

Modulus == 2 ^ WordBits
Words == 0 .. (Modulus - 1)
Min(a, b) == IF a < b THEN a ELSE b
\* Sizes passed to the entry points: the small ones, and the size whose top
\* bit is set (its product with 2 wraps to 0).
RunSizes == (0 .. Min(MaxSize, Modulus - 1)) \cup {Modulus \div 2}
ThreadIds == 0 .. (MaxThreads - 1)
Ops == {"plus", "lin"}
Funcs == {"index", "succ"}

VARIABLES
  MIN_SIZE,         \* template parameter of ParallelForT
  call,             \* the entry point in progress
  num_threads,      \* requested number of threads
  size,             \* number of indices
  func,             \* which callback the caller passed
  op,               \* which combine operation the caller passed
  pc,               \* position of the calling thread
  n,                \* omp_get_num_threads(): size of the team (0: no team)
  wpc,              \* position of each team member
  i0, i1,           \* each worker's range
  i,                \* each worker's loop variable
  partial_result,   \* each worker's private accumulator
  partial_results,  \* the vector RunReduceP returns (element m at m + 1)
  is,               \* loop variable of the serial path
  sresult,          \* accumulator of the serial path of RunReduceP
  k,                \* position of RunReduce's range-for
  result,           \* accumulator of RunReduce
  invoked,          \* how often func was invoked for each index
  calls,            \* the (n, m, i) func was invoked with
  opcalls,          \* how often op was invoked
  writes,           \* the slots of partial_results each worker stored into
  ranges            \* partitioner runs: the ranges computed so far

vars == <<MIN_SIZE, call, num_threads, size, func, op, pc, n, wpc, i0, i1, i,
          partial_result, partial_results, is, sresult, k, result, invoked,
          calls, opcalls, writes, ranges>>

teamVars == <<n, wpc, i0, i1, i, partial_result>>
inputVars == <<MIN_SIZE, call, num_threads, size, func, op>>

\* ------------------------------------------------------------ callbacks
\* The caller's func(n, m, i, args...): here a function of the index.
FuncApply(f, nn, mm, ii) == IF f = "succ" THEN ii + 1 ELSE ii

\* The caller's op(a, b): addition, or a combine that is neither commutative
\* nor associative.
OpApply(o, a, b) == IF o = "plus" THEN a + b ELSE 2 * a + b

\* ---------------------------------------------------------- partitioner
\* A partitioner that divides before it multiplies.
GetIndex0_DivFirst(sz, nt, id) ==
  IF sz >= MIN_SIZE THEN (((sz \div nt) * id) % Modulus) ELSE 0

\* size * thread_id / num_threads in uint64_t arithmetic: the product wraps,
\* the division is exact on what is left.
GetIndex0(sz, nt, id) ==
  IF sz >= MIN_SIZE THEN ((sz * id) % Modulus) \div nt ELSE 0

\* A partitioner whose end divides before it multiplies: the remainder of
\* size / num_threads is lost.
GetIndex1_DivFirst(sz, nt, id) ==
  IF sz >= MIN_SIZE THEN (((sz \div nt) * (id + 1)) % Modulus) ELSE sz

\* size * (thread_id + 1) / num_threads in uint64_t arithmetic. thread_id + 1
\* is at most num_threads and does not wrap in unsigned.
GetIndex1(sz, nt, id) ==
  IF sz >= MIN_SIZE THEN ((sz * (id + 1)) % Modulus) \div nt ELSE sz

\* ------------------------------------------------------------- dispatch
\* A parallel branch that forgets the threshold.
UseParallel_NoThreshold(nt, sz) == nt > 1

\* The guard of the parallel branch.
UseParallel(nt, sz) == nt > 1 /\ sz >= MIN_SIZE

\* A serial branch that is a plain else, as in Run.
UseSerialReduce_PlainElse(nt) == TRUE

\* The guard of RunReduceP's serial branch.
UseSerialReduce(nt) == nt > 0

\* A vector sized one element short of num_threads.
ResizedPartials_Short(nt) == [x \in 1 .. (nt - 1) |-> 0]

\* partial_results.resize(num_threads, 0) on the empty vector.
ResizedPartials(nt) == [x \in 1 .. nt |-> 0]

\* A worker that takes the requested num_threads for the size of its team.
WorkerCount_Requested == num_threads

\* The n a worker reads: omp_get_num_threads().
WorkerCount == n

NoTeam ==
  /\ n = 0
  /\ wpc = [m \in ThreadIds |-> "none"]
  /\ i0 = [m \in ThreadIds |-> 0]
  /\ i1 = [m \in ThreadIds |-> 0]
  /\ i = [m \in ThreadIds |-> 0]
  /\ partial_result = [m \in ThreadIds |-> 0]

InitCommon ==
  /\ MIN_SIZE \in 0 .. MaxMinSize
  /\ func = "index"
  /\ op = "plus"
  /\ NoTeam
  /\ partial_results = <<>>
  /\ is = 0
  /\ sresult = 0
  /\ k = 1
  /\ result = 0
  /\ invoked = [x \in Words |-> 0]
  /\ calls = {}
  /\ opcalls = 0
  /\ writes = [m \in ThreadIds |-> <<>>]
  /\ ranges = <<>>

Init ==
  /\ InitCommon
  /\ num_threads = 0
  /\ size = 0
  /\ call = "none"
  /\ pc = "idle"

\* Run(num_threads, size, func): entry and choice of the branch.
Run ==
  \E nt \in 0 .. MaxThreads, sz \in RunSizes, f \in Funcs :
    /\ pc = "idle"
    /\ call' = "Run"
    /\ num_threads' = nt
    /\ size' = sz
    /\ func' = f
    /\ pc' = IF UseParallel(nt, sz) THEN "fork" ELSE "serial"
    /\ UNCHANGED <<MIN_SIZE, op, teamVars, partial_results, is, sresult, k,
                   result, invoked, calls, opcalls, ranges, writes>>

\* RunReduceP's entry: the vector is declared, then sized on the parallel
\* branch; with num_threads = 0 neither branch is taken.
ReduceEntry(c, nt, sz, f, o) ==
  /\ pc = "idle"
  /\ call' = c
  /\ num_threads' = nt
  /\ size' = sz
  /\ func' = f
  /\ op' = o
  /\ partial_results' = IF UseParallel(nt, sz) THEN ResizedPartials(nt)
                        ELSE <<>>
  /\ pc' = IF UseParallel(nt, sz) THEN "fork"
           ELSE IF UseSerialReduce(nt) THEN "serial"
           ELSE "return_p"
  /\ UNCHANGED <<MIN_SIZE, teamVars, is, sresult, k, result, invoked, calls,
                 opcalls, ranges, writes>>

RunReduceP ==
  \E nt \in 0 .. MaxThreads, sz \in RunSizes, f \in Funcs, o \in Ops :
    ReduceEntry("RunReduceP", nt, sz, f, o)

RunReduce ==
  \E nt \in 0 .. MaxThreads, sz \in RunSizes, f \in Funcs, o \in Ops :
    ReduceEntry("RunReduce", nt, sz, f, o)

\* #pragma omp parallel num_threads(num_threads): the runtime grants a team
\* of 1 .. num_threads threads; the calling thread is member 0.
Fork ==
  /\ pc = "fork"
  /\ \E g \in 1 .. num_threads :
       /\ n' = g
       /\ wpc' = [m \in ThreadIds |-> IF m < g THEN "start" ELSE "none"]
  /\ pc' = "join"
  /\ UNCHANGED <<inputVars, i0, i1, i, partial_result, partial_results, is,
                 sresult, k, result, invoked, calls, opcalls, ranges, writes>>

\* An accumulator declared outside the parallel region: one for the team.
Accumulator_Shared(m) == 0

\* The accumulator worker m folds into: partial_result is declared inside
\* the parallel region, so each worker has its own.
Accumulator(m) == m

\* A worker reads n and m and computes its range.
WorkerStart(m) ==
  /\ wpc[m] = "start"
  /\ i0' = [i0 EXCEPT ![m] = GetIndex0(size, WorkerCount, m)]
  /\ i1' = [i1 EXCEPT ![m] = GetIndex1(size, WorkerCount, m)]
  /\ i' = [i EXCEPT ![m] = GetIndex0(size, WorkerCount, m)]
  /\ partial_result' = [partial_result EXCEPT ![Accumulator(m)] = 0]
  /\ wpc' = [wpc EXCEPT ![m] = "loop"]
  /\ UNCHANGED <<inputVars, pc, n, partial_results, is, sresult, k, result,
                 invoked, calls, opcalls, ranges, writes>>

\* A loop that hands func its indices from the top of the range down.
LoopIndex_Descending(m) == i0[m] + i1[m] - 1 - i[m]

\* The index a worker's loop hands to func: its loop variable.
LoopIndex(m) == i[m]

\* One iteration of a worker's loop.
WorkerIter(m) ==
  /\ wpc[m] = "loop"
  /\ i[m] < i1[m]
  /\ invoked' = [invoked EXCEPT ![LoopIndex(m)] = @ + 1]
  /\ calls' = calls \cup {<<WorkerCount, m, LoopIndex(m)>>}
  /\ IF call = "Run"
       THEN UNCHANGED <<partial_result, opcalls>>
       ELSE /\ partial_result' =
                 [partial_result EXCEPT
                    ![Accumulator(m)] = OpApply(op, @,
                                   FuncApply(func, WorkerCount, m,
                                             LoopIndex(m)))]
            /\ opcalls' = opcalls + 1
  /\ i' = [i EXCEPT ![m] = @ + 1]
  /\ UNCHANGED <<inputVars, pc, n, wpc, i0, i1, partial_results, is, sresult,
                 k, result, ranges, writes>>

\* A worker that stores its accumulator from the far end of the vector.
Slot_Reversed(m) == n - m

\* Workers that all store into the first element.
Slot_Shared(m) == 1

\* A worker that counts its slot from the end of the vector as it was sized.
Slot_FromEnd(m) == num_threads - m

\* The slot a worker stores its accumulator in.
Slot(m) == m + 1

\* A worker leaves its loop; in a reduction it stores its accumulator.
WorkerEnd(m) ==
  /\ wpc[m] = "loop"
  /\ ~(i[m] < i1[m])
  /\ partial_results' =
       IF call = "Run" THEN partial_results
       ELSE [partial_results EXCEPT
               ![Slot(m)] = partial_result[Accumulator(m)]]
  /\ writes' = IF call = "Run" THEN writes
               ELSE [writes EXCEPT ![m] = Append(@, Slot(m))]
  /\ wpc' = [wpc EXCEPT ![m] = "done"]
  /\ UNCHANGED <<inputVars, pc, n, i0, i1, i, partial_result, is, sresult, k,
                 result, invoked, calls, opcalls, ranges>>

\* A parallel region without its closing barrier.
TeamDone_NoBarrier == TRUE

\* A barrier that waits for as many threads as were requested.
TeamDone_WaitsForRequested ==
  \A m \in ThreadIds : m < num_threads => wpc[m] = "done"

\* The barrier that closes the parallel region.
TeamDone == \A m \in ThreadIds : m < n => wpc[m] = "done"

\* Where the calling thread goes when the loops are over.
AfterLoops == IF call = "Run" THEN "returned" ELSE "return_p"

Join ==
  /\ pc = "join"
  /\ TeamDone
  /\ pc' = AfterLoops
  /\ UNCHANGED <<inputVars, teamVars, partial_results, is, sresult, k, result,
                 invoked, calls, opcalls, ranges, writes>>

\* One iteration of the serial loop: func(1, 0, i).
SerialIter ==
  /\ pc = "serial"
  /\ is < size
  /\ invoked' = [invoked EXCEPT ![is] = @ + 1]
  /\ calls' = calls \cup {<<1, 0, is>>}
  /\ IF call = "Run"
       THEN UNCHANGED <<sresult, opcalls>>
       ELSE /\ sresult' = OpApply(op, sresult, FuncApply(func, 1, 0, is))
            /\ opcalls' = opcalls + 1
  /\ is' = is + 1
  /\ UNCHANGED <<inputVars, pc, teamVars, partial_results, k, result, ranges,
                 writes>>

\* The serial loop ends; RunReduceP resizes the vector to one element.
SerialEnd ==
  /\ pc = "serial"
  /\ ~(is < size)
  /\ partial_results' = IF call = "Run" THEN partial_results ELSE <<sresult>>
  /\ pc' = AfterLoops
  /\ UNCHANGED <<inputVars, teamVars, is, sresult, k, result, invoked, calls,
                 opcalls, ranges, writes>>

\* RunReduceP returns partial_results, to its caller or to RunReduce (which
\* handed it op as an rvalue reference: nothing is moved from, and RunReduce
\* goes on with the same op).
ReturnP ==
  /\ pc = "return_p"
  /\ pc' = IF call = "RunReduce" THEN "fold" ELSE "returned"
  /\ k' = 1
  /\ result' = 0
  /\ UNCHANGED <<inputVars, teamVars, partial_results, is, sresult, invoked,
                 calls, opcalls, ranges, writes>>

\* A fold that walks the vector from its last element.
FoldElement_Descending(kk) == partial_results[Len(partial_results) + 1 - kk]

\* The element RunReduce's range-for visits at its k-th step.
FoldElement(kk) == partial_results[kk]

\* One step of RunReduce's fold.
FoldIter ==
  /\ pc = "fold"
  /\ k <= Len(partial_results)
  /\ result' = OpApply(op, result, FoldElement(k))
  /\ opcalls' = opcalls + 1
  /\ k' = k + 1
  /\ UNCHANGED <<inputVars, pc, teamVars, partial_results, is, sresult,
                 invoked, calls, ranges, writes>>

\* RunReduce returns result.
FoldEnd ==
  /\ pc = "fold"
  /\ ~(k <= Len(partial_results))
  /\ pc' = "returned"
  /\ UNCHANGED <<inputVars, teamVars, partial_results, is, sresult, k, result,
                 invoked, calls, opcalls, ranges, writes>>

Next ==
  \/ Run
  \/ RunReduceP
  \/ RunReduce
  \/ Fork
  \/ \E m \in ThreadIds : WorkerStart(m)
  \/ \E m \in ThreadIds : WorkerIter(m)
  \/ \E m \in ThreadIds : WorkerEnd(m)
  \/ Join
  \/ SerialIter
  \/ SerialEnd
  \/ ReturnP
  \/ FoldIter
  \/ FoldEnd

Spec == Init /\ [][Next]_vars

\* ------------------------------------------------------------ scheduling
\* The steps of team member m, and those of the calling thread once a call
\* is under way.
WorkerStep(m) == WorkerStart(m) \/ WorkerIter(m) \/ WorkerEnd(m)

CallerStep ==
  Fork \/ Join \/ SerialIter \/ SerialEnd \/ ReturnP \/ FoldIter \/ FoldEnd

\* Every thread that can take a step is eventually scheduled, and func and
\* op return: no thread stays for ever in front of a step it can take.
FairSpec ==
  /\ Spec
  /\ WF_vars(CallerStep)
  /\ \A m \in ThreadIds : WF_vars(WorkerStep(m))

\* ------------------------------------------------- partitioner, on its own
\* GetIndex0/GetIndex1 called directly, for every size of the word and every
\* worker count, one worker id after the other.
InitPart ==
  /\ InitCommon
  /\ num_threads \in 1 .. MaxThreads
  /\ size \in Words
  /\ call = "GetIndex"
  /\ pc = "part"

\* GetIndex0 and GetIndex1 for the next thread_id.
PartStep ==
  /\ pc = "part"
  /\ Len(ranges) < num_threads
  /\ ranges' = Append(ranges, <<GetIndex0(size, num_threads, Len(ranges)),
                                GetIndex1(size, num_threads, Len(ranges))>>)
  /\ UNCHANGED <<inputVars, pc, teamVars, partial_results, is, sresult, k,
                 result, invoked, calls, opcalls, writes>>

NextPart == PartStep

SpecPart == InitPart /\ [][NextPart]_vars

\* ------------------------------------------------------------ properties
\* The indices of a half-open range <<begin, end>>.
RangeSet(r) == {x \in Words : r[1] <= x /\ x < r[2]}

\* All ids of one (size, num_threads) have been through the partitioner.
PartComplete == pc = "part" /\ Len(ranges) = num_threads

\* No product of the partitioner wraps.
NoWrap(sz, nt) == sz * nt < Modulus

\* The ranges cover [0, size) and no two of them share an index.
Coverage ==
  /\ UNION {RangeSet(ranges[j]) : j \in 1 .. Len(ranges)} = 0 .. (size - 1)
  /\ \A a, b \in 1 .. Len(ranges) :
       a # b => RangeSet(ranges[a]) \cap RangeSet(ranges[b]) = {}

\* Every range ends at or before the start of the range of each later id.
Monotone ==
  \A a, b \in 1 .. Len(ranges) : a < b => ranges[a][2] <= ranges[b][1]

EachIndexOnce == \A x \in Words : invoked[x] = IF x < size THEN 1 ELSE 0

\* The parallel branch was taken and no product of its partition wrapped, or
\* the serial branch was taken.
DispatchNoWrap == n = 0 \/ NoWrap(size, n)

\* C3: when Run returns, func has been invoked exactly once for every index
\* of 0 .. size - 1 and for no other, for every num_threads >= 1, every
\* granted team and every interleaving.
C3_RunCompleteness ==
  (call = "Run" /\ pc = "returned" /\ num_threads >= 1) => EachIndexOnce

\* Completeness of Run wherever size * n does not wrap.
RunCompletenessNoWrap ==
  (call = "Run" /\ pc = "returned" /\ num_threads >= 1 /\ DispatchNoWrap)
    => EachIndexOnce

RECURSIVE FoldRange(_, _, _, _, _, _)
\* The fold, seeded with 0 and in increasing index order, of op over
\* func(nn, mm, x) for x in [lo, hi).
FoldRange(o, f, nn, mm, lo, hi) ==
  IF lo >= hi THEN 0
  ELSE OpApply(o, FoldRange(o, f, nn, mm, lo, hi - 1),
               FuncApply(f, nn, mm, hi - 1))

\* C4: with addition as op, RunReduce returns the sequential sum of func(i)
\* over 0 .. size - 1, for every size, every num_threads >= 1, every granted
\* team and every interleaving.
C4_ReduceSum ==
  (call = "RunReduce" /\ pc = "returned" /\ op = "plus" /\ num_threads >= 1)
    => result = FoldRange("plus", func, 1, 0, 0, size)

\* The sum of RunReduce wherever size * n does not wrap.
ReduceSumNoWrap ==
  (call = "RunReduce" /\ pc = "returned" /\ op = "plus" /\ num_threads >= 1
     /\ DispatchNoWrap)
    => result = FoldRange("plus", func, 1, 0, 0, size)

\* The loops of the call are over.
LoopsOver == pc \in {"return_p", "fold", "returned"}

\* C5: for size < MIN_SIZE and num_threads > 1, Run and RunReduceP form no
\* team; the calling thread alone goes through [0, size), and every
\* invocation of func receives worker count 1 and worker id 0.
C5_ThresholdFallback ==
  (call \in {"Run", "RunReduceP", "RunReduce"} /\ size < MIN_SIZE
     /\ num_threads > 1) =>
    /\ pc # "fork" /\ pc # "join"
    /\ NoTeam
    /\ \A c \in calls : c[1] = 1 /\ c[2] = 0
    /\ LoopsOver => EachIndexOnce

\* Three threads were asked for a size below the threshold, and Run did it all.
C5_Witness ==
  /\ call = "Run"
  /\ num_threads = 3
  /\ size = 1
  /\ MIN_SIZE = 2
  /\ pc = "returned"
  /\ calls = {<<1, 0, 0>>}

\* C6: Run with num_threads = 0 invokes func for no index.
C6_RunZeroIsNoOp ==
  (call = "Run" /\ num_threads = 0) =>
    calls = {} /\ \A x \in Words : invoked[x] = 0

\* C7: RunReduceP with num_threads = 0 invokes neither func nor op and
\* returns an empty vector; RunReduce then returns the seed 0.
C7_ReduceZero ==
  (call \in {"RunReduceP", "RunReduce"} /\ num_threads = 0) =>
    /\ pc \in {"return_p", "fold", "returned"}
    /\ calls = {}
    /\ opcalls = 0
    /\ NoTeam
    /\ partial_results = <<>>
    /\ (call = "RunReduce" /\ pc = "returned") => result = 0

\* RunReduce returned from a call with no threads and a size above the
\* threshold.
C7_Witness ==
  /\ call = "RunReduce"
  /\ num_threads = 0
  /\ size = 3
  /\ pc = "returned"

\* C8: on the parallel path, once the calling thread is past the region no
\* member of the team is still running: each has gone through its whole
\* range, so no invocation of func follows the return.
C8_JoinBeforeReturn ==
  (n > 0 /\ pc \in {"return_p", "fold", "returned"}) =>
    \A m \in ThreadIds : m < n => (wpc[m] = "done" /\ ~(i[m] < i1[m]))

\* Run returned from a team of three whose members all had indices to do.
C8_Witness ==
  /\ call = "Run"
  /\ pc = "returned"
  /\ n = 3
  /\ \A m \in ThreadIds : m < n => (wpc[m] = "done" /\ i0[m] < i1[m])

\* RunReduceP has returned its vector (to its caller or to RunReduce).
PReturned == call \in {"RunReduceP", "RunReduce"} /\ pc \in {"fold", "returned"}

\* C9: after RunReduceP returns, on the parallel path element m is the fold
\* of op over func on worker m's range for the granted count; on the serial
\* path (num_threads >= 1) the vector is the single fold over 0 .. size - 1.
C9_PartialResults ==
  PReturned =>
    /\ n > 0 =>
         \A m \in ThreadIds : m < n =>
           partial_results[m + 1] =
             FoldRange(op, func, n, m, GetIndex0(size, n, m),
                       GetIndex1(size, n, m))
    /\ (n = 0 /\ num_threads >= 1) =>
         partial_results = <<FoldRange(op, func, 1, 0, 0, size)>>

\* RunReduceP returned from a team of two with different partial results.
C9_Witness ==
  /\ call = "RunReduceP"
  /\ pc = "returned"
  /\ n = 2
  /\ num_threads = 3
  /\ size = 5
  /\ partial_results[1] # partial_results[2]
  /\ partial_results[1] # 0

RECURSIVE FoldSeq(_, _)
\* op(...op(op(0, p[1]), p[2])..., p[Len(p)]).
FoldSeq(o, p) ==
  IF p = <<>> THEN 0
  ELSE OpApply(o, FoldSeq(o, SubSeq(p, 1, Len(p) - 1)), p[Len(p)])

\* C10: RunReduce folds only once RunReduceP has returned and the team is
\* done, and it folds in ascending worker id from the seed 0: for any op its
\* result is op(...op(op(0, p[0]), p[1])..., p[k-1]).
C10_FoldOrder ==
  (call = "RunReduce" /\ pc \in {"fold", "returned"}) =>
    /\ \A m \in ThreadIds : wpc[m] \in {"none", "done"}
    /\ result = FoldSeq(op, SubSeq(partial_results, 1, k - 1))
    /\ pc = "returned" => result = FoldSeq(op, partial_results)

\* RunReduce returned the fold, under the non-commutative op, of three
\* partial results that are not all equal.
C10_Witness ==
  /\ call = "RunReduce"
  /\ pc = "returned"
  /\ op = "lin"
  /\ n = 3
  /\ partial_results[1] # partial_results[3]
  /\ result = FoldSeq(op, partial_results)

\* C11: for size >= MIN_SIZE the partitioner returns
\* floor(size * id / worker_count) and floor(size * (id + 1) / worker_count),
\* the products being those of the integers.
C11_FloorFormula ==
  (PartComplete /\ size >= MIN_SIZE) =>
    \A j \in 1 .. Len(ranges) :
      ranges[j] = <<(size * (j - 1)) \div num_threads,
                    (size * j) \div num_threads>>

\* The floor formula wherever size * worker_count does not wrap.
FloorFormulaNoWrap ==
  (PartComplete /\ size >= MIN_SIZE /\ NoWrap(size, num_threads)) =>
    \A j \in 1 .. Len(ranges) :
      ranges[j] = <<(size * (j - 1)) \div num_threads,
                    (size * j) \div num_threads>>

\* C12: with the products computed in the word, every range the partitioner
\* returns satisfies begin <= end <= size.
C12_RangeBounds ==
  PartComplete =>
    \A j \in 1 .. Len(ranges) :
      ranges[j][1] <= ranges[j][2] /\ ranges[j][2] <= size

\* The bounds of a range wherever size * worker_count does not wrap.
RangeBoundsNoWrap ==
  (PartComplete /\ NoWrap(size, num_threads)) =>
    \A j \in 1 .. Len(ranges) :
      ranges[j][1] <= ranges[j][2] /\ ranges[j][2] <= size

\* A reduction is in progress or over.
ReduceCall == call \in {"RunReduceP", "RunReduce"}

\* C13: in RunReduceP's parallel phase, under every interleaving, worker m
\* stores into slot m only and does so exactly once (when it is done);
\* until then slot m keeps its seed, and accumulator m is at every moment the
\* fold over the part of m's own range that m has gone through: no other
\* worker has touched it.
C13_AccumulatorExclusive ==
  (ReduceCall /\ n > 0) =>
    \A m \in ThreadIds :
      /\ \A j \in 1 .. Len(writes[m]) : writes[m][j] = m + 1
      /\ Len(writes[m]) = IF m < n /\ wpc[m] = "done" THEN 1 ELSE 0
      /\ (m < n /\ wpc[m] \in {"loop", "done"}) =>
           partial_result[m] = FoldRange(op, func, n, m, i0[m], i[m])
      /\ m < n =>
           partial_results[m + 1] =
             IF wpc[m] = "done" THEN partial_result[m] ELSE 0

\* The parallel phase is on: worker 1 has stored a partial result that is
\* not the seed while worker 0 is still accumulating.
C13_Witness ==
  /\ ReduceCall
  /\ pc = "join"
  /\ n >= 2
  /\ wpc[0] = "loop"
  /\ partial_result[0] # 0
  /\ wpc[1] = "done"
  /\ writes[1] = <<2>>
  /\ partial_results[2] # 0

\* C14: on the parallel path every invocation func(n, m, i) receives the
\* granted team size as n (not the requested num_threads), a worker id
\* m < n, and an index of m's range for that n.
C14_GrantedCount ==
  n > 0 =>
    \A c \in calls :
      /\ c[1] = n
      /\ c[2] < n
      /\ GetIndex0(size, n, c[2]) <= c[3]
      /\ c[3] < GetIndex1(size, n, c[2])

\* Fewer threads were granted than requested, and the last worker of the
\* team has invoked func.
C14_Witness ==
  /\ num_threads = 3
  /\ n = 2
  /\ \E c \in calls : c[1] = 2 /\ c[2] = 1

\* The indices func was invoked with by worker mm of a team of nn.
CallsOf(nn, mm) == {c[3] : c \in {d \in calls : d[1] = nn /\ d[2] = mm}}

\* C15: at every moment the indices a worker has invoked func for are the
\* first ones of its range, i0, i0 + 1, ..., with none left out and none
\* invoked twice - each step adds the next one - and a worker that is done
\* has reached i1; on the serial path the same holds of 0, 1, ..., size - 1
\* with func(1, 0, i).
C15_IncreasingOrder ==
  /\ n > 0 =>
       \A m \in ThreadIds : m < n =>
         /\ wpc[m] = "start" => CallsOf(n, m) = {}
         /\ wpc[m] \in {"loop", "done"} =>
              /\ CallsOf(n, m) = {x \in Words : i0[m] <= x /\ x < i[m]}
              /\ i0[m] <= i[m]
              /\ \A x \in Words : (i0[m] <= x /\ x < i[m]) => invoked[x] >= 1
         /\ (wpc[m] = "done" /\ i0[m] <= i1[m]) => i[m] = i1[m]
  /\ (n = 0 /\ pc # "part") =>
       /\ calls = {<<1, 0, x>> : x \in {y \in Words : y < is}}
       /\ \A x \in Words : invoked[x] = IF x < is THEN 1 ELSE 0
       /\ (pc = "returned" /\ (call = "Run" \/ num_threads > 0)) => is = size

\* A worker is in the middle of a range of at least three indices.
C15_Witness ==
  /\ n = 2
  /\ wpc[1] = "loop"
  /\ i[1] = i0[1] + 2
  /\ i[1] < i1[1]
  /\ CallsOf(2, 1) = {i0[1], i0[1] + 1}

\* C16: with func and op returning and every thread scheduled fairly, every
\* call of Run, RunReduceP and RunReduce returns, whatever the size, the
\* requested num_threads and the granted team.
C16_Termination == (pc # "idle") ~> (pc = "returned")

\* No call is ever stuck: a state that is not a return has a step to take.
NoDeadlock == (pc \in {"idle", "returned"}) \/ ENABLED Next

\* RunReduce returned from a team smaller than requested.
C16_Witness ==
  /\ call = "RunReduce"
  /\ pc = "returned"
  /\ num_threads = 3
  /\ n = 2
  /\ size >= 4

\* The number of indices of the j-th range.
RangeLen(j) == ranges[j][2] - ranges[j][1]

\* The lengths of any two ranges differ by at most 1, each being the floor or
\* the ceiling of size / worker_count; with fewer indices than workers some
\* range is empty and the others hold one index.
NearEqual ==
  /\ \A a, b \in 1 .. Len(ranges) : RangeLen(a) - RangeLen(b) <= 1
  /\ \A j \in 1 .. Len(ranges) :
       \/ RangeLen(j) = size \div num_threads
       \/ RangeLen(j) = (size + num_threads - 1) \div num_threads
  /\ size < num_threads =>
       /\ \E j \in 1 .. Len(ranges) : ranges[j][1] = ranges[j][2]
       /\ \A j \in 1 .. Len(ranges) : RangeLen(j) \in {0, 1}

\* C17: for every size >= MIN_SIZE and every worker count the ranges are
\* near-equal chunks.
C17_NearEqualChunks == (PartComplete /\ size >= MIN_SIZE) => NearEqual

\* Near-equal chunks wherever size * worker_count does not wrap.
NearEqualNoWrap ==
  (PartComplete /\ size >= MIN_SIZE /\ NoWrap(size, num_threads)) => NearEqual

\* C18: in RunReduceP's parallel path the vector has num_threads elements
\* from before the team starts until the call returns, the team is no larger
\* than that, and every store partial_results[m] hits an element of it.
C18_SlotInBounds ==
  (ReduceCall /\ n > 0) =>
    /\ n <= num_threads
    /\ Len(partial_results) = num_threads
    /\ \A m \in ThreadIds :
         /\ m < n => (m + 1) \in DOMAIN partial_results
         /\ \A j \in 1 .. Len(writes[m]) :
              writes[m][j] \in DOMAIN partial_results

\* The whole requested team was granted and its last member has stored its
\* partial result while another is still running.
C18_Witness ==
  /\ ReduceCall
  /\ pc = "join"
  /\ num_threads = 3
  /\ n = 3
  /\ wpc[2] = "done"
  /\ writes[2] = <<3>>
  /\ wpc[0] = "loop"

\* C19: on the parallel path the vector RunReduceP returns has num_threads
\* elements, not n; the elements from n on were stored into by no worker and
\* hold the seed 0.
C19_RequestedLength ==
  (PReturned /\ n > 0) =>
    /\ Len(partial_results) = num_threads
    /\ \A j \in 1 .. Len(partial_results) :
         j > n =>
           /\ partial_results[j] = 0
           /\ \A m \in ThreadIds :
                \A x \in 1 .. Len(writes[m]) : writes[m][x] # j

\* RunReduceP returned three elements from a team of one that had work.
C19_Witness ==
  /\ call = "RunReduceP"
  /\ pc = "returned"
  /\ num_threads = 3
  /\ n = 1
  /\ Len(partial_results) = 3
  /\ partial_results[1] # 0
  /\ partial_results[2] = 0
  /\ partial_results[3] = 0

\* What RunReduceP returns as a function of its arguments and of the granted
\* team alone.
ExpectedPartials ==
  IF UseParallel(num_threads, size)
    THEN [j \in 1 .. num_threads |->
            IF j <= n
              THEN FoldRange(op, func, n, j - 1, GetIndex0(size, n, j - 1),
                             GetIndex1(size, n, j - 1))
              ELSE 0]
    ELSE IF num_threads > 0 THEN <<FoldRange(op, func, 1, 0, 0, size)>>
    ELSE <<>>

\* C20: for fixed num_threads, size, func, op and granted team, what
\* RunReduceP and RunReduce return is the same in every interleaving: each
\* is a function of those alone, whatever the order of the workers' steps
\* was, also for an op that is neither commutative nor associative.
C20_InterleavingIndependence ==
  PReturned =>
    /\ partial_results = ExpectedPartials
    /\ (call = "RunReduce" /\ pc = "returned") =>
         result = FoldSeq(op, ExpectedPartials)

\* RunReduce returned under the non-commutative op from a team of two that
\* both had work, out of three requested.
C20_Witness ==
  /\ call = "RunReduce"
  /\ pc = "returned"
  /\ op = "lin"
  /\ func = "succ"
  /\ num_threads = 3
  /\ n = 2
  /\ i0[0] < i1[0]
  /\ i0[1] < i1[1]

====
